---- MODULE Spec2Model ----
(***************************************************************************)
(* A model of JSONF (src/mod.ts): JSON.stringify / JSON.parse extended     *)
(* with the $MAGIC$ tag, together with the classes of src/test/mod_test.ts *)
(* (Fable, Fancy, Simple, H) that exercise it.                             *)
(*                                                                         *)
(* JavaScript values are records [t, a, id, c] of one shape:               *)
(*   t   the kind of value (typeof / class of the value)                   *)
(*   a   the text of a primitive, or the name of a class or function       *)
(*   id  the identity of an allocated object whose identity is observed    *)
(*       (instances, bound functions, classes made by H.extend); 0 else    *)
(*   c   the own properties, in insertion order, as <<[k, v], ...>>        *)
(* A JSON text is modelled by its syntax tree, which is a value of the     *)
(* kinds null, boolean, number, string, Array and Object.                  *)
(***************************************************************************)
EXTENDS Integers, Sequences, FiniteSets, TLC

\* ------------------------------------------------------------- bounds
\* depth of nested calls the engine allows before it raises RangeError
MaxStack == 14
\* instances the client constructs in one run of the interleaving
MaxInsts == 2
\* constructions and wrappings applied to build one value to encode
MaxNest == 2

\* ------------------------------------------------------------- values
MAGIC == "$MAGIC$"

Val(t, a, id, c) == [t |-> t, a |-> a, id |-> id, c |-> c]
P(k, v) == [k |-> k, v |-> v]

Undefined == Val("undefined", "", 0, <<>>)
Null == Val("null", "", 0, <<>>)
Num(s) == Val("number", s, 0, <<>>)
Str(s) == Val("string", s, 0, <<>>)
Bool(s) == Val("boolean", s, 0, <<>>)
List(items) == Val("Array", "", 0, [i \in 1..Len(items) |-> P("", items[i])])
Rec(fields) == Val("Object", "", 0, fields)
Class(name) == Val("class", name, 0, <<>>)
Fn(name) == Val("function", name, 0, <<>>)
Inst(cls, id, fields) == Val("instance", cls, id, fields)
Err(name, context) == Val("error", name, 0, <<P("context", context)>>)

IsError(v) == v.t = "error"

HasField(c, key) == \E i \in 1..Len(c) : c[i].k = key
FieldOf(c, key) ==
  IF HasField(c, key) THEN c[CHOOSE i \in 1..Len(c) : c[i].k = key].v ELSE Undefined
SetField(c, key, val) ==
  IF HasField(c, key)
  THEN [i \in 1..Len(c) |-> IF c[i].k = key THEN P(key, val) ELSE c[i]]
  ELSE Append(c, P(key, val))
\* the elements of an Array, or the array-like view apply() takes of an object
Elements(l) == IF l.t = "Array" THEN SelectSeq(l.c, LAMBDA e : e.k = "") ELSE <<>>
Items(l) == [i \in 1..Len(Elements(l)) |-> Elements(l)[i].v]

\* typeof(v) === 'function', typeof(v) === 'object' (for a truthy v)
TypeofFunction(v) == v.t \in {"class", "function", "bound"}
TypeofObject(v) == v.t \in {"Object", "Array", "instance", "boxed"}

\* JavaScript truthiness: if (v), !cls, v && ...
Truthy(v) ==
  CASE v.t \in {"undefined", "null"} -> FALSE
    [] v.t = "number" -> v.a # "0"
    [] v.t = "string" -> v.a # ""
    [] v.t = "boolean" -> v.a = "true"
    [] OTHER -> TRUE

\* The class made by `class extends this { static k = k }` inside H.extend.
Extended(k, id) == Val("class", "", id, <<P("k", k)>>)

\* ------------------------------------------------- classes of the tests
\* the instance (prototype) toJSON of Fable, inherited by Fancy, and the
\* static toJSON of H, inherited by the classes H.extend makes
HasToJSON(v) ==
  \/ v.t = "instance" /\ v.a \in {"Fable", "Fancy"}
  \/ v.t = "class" /\ v.a \in {"H", ""}

StaticK(cls) == IF cls.a = "H" THEN Str("r") ELSE FieldOf(cls.c, "k")

ToJSON(v) ==
  IF v.t = "instance"
  THEN FieldOf(v.c, "json")
  ELSE Rec(<<P(MAGIC, Rec(<<P("cls", Str("H")), P("key", Str("extend")),
                            P("args", List(<<StaticK(v)>>))>>))>>)

\* v.$MAGIC$: a property of a named function object lives in the heap
\* `magic` (one function object is shared by every holder of it)
MagicOf(v, st) ==
  CASE v.t = "function" -> IF v.a \in DOMAIN st.magic THEN st.magic[v.a] ELSE Undefined
    [] v.t \in {"Object", "Array", "instance", "bound", "boxed"} -> FieldOf(v.c, MAGIC)
    [] OTHER -> Undefined

\* v.constructor
ConstructorOf(v) ==
  CASE v.t = "Object" -> IF HasField(v.c, "constructor") THEN FieldOf(v.c, "constructor")
                         ELSE Class("Object")
    [] v.t = "Array" -> Class("Array")
    [] v.t = "instance" -> Class(v.a)
    [] v.t = "boxed" -> Class(v.a)
    [] OTHER -> Undefined

\* v.name
NameOf(v) ==
  CASE v.t \in {"class", "function"} -> Str(v.a)
    [] v.t = "bound" -> Str("bound " \o v.a)
    [] v.t = "Object" -> FieldOf(v.c, "name")
    [] OTHER -> Undefined

\* { ...v }: the own enumerable properties
Spread(v) == Rec(v.c)

\* --------------------------------------------------------- stringify
RECURSIVE replacer(_, _)
replacer(v, st) ==
  IF Truthy(v)
  THEN IF Truthy(MagicOf(v, st))
       THEN Rec(<<P(MAGIC, MagicOf(v, st))>>)
       ELSE IF TypeofFunction(v)
       THEN IF HasToJSON(v)
            THEN replacer(ToJSON(v), st)
            ELSE Rec(<<P(MAGIC, Rec(<<P("cls", NameOf(v))>>))>>)
       ELSE IF /\ TypeofObject(v)
               /\ Truthy(ConstructorOf(v))
               /\ NameOf(ConstructorOf(v)) \notin {Str("Array"), Str("Object")}
       THEN LET ths == IF HasToJSON(v) THEN ToJSON(v) ELSE Spread(v)
            IN Rec(<<P(MAGIC, Rec(<<P("cls", NameOf(ConstructorOf(v))), P("ths", ths)>>))>>)
       ELSE v
  ELSE v

\* JSON.stringify(value, replacer): SerializeJSONProperty of ECMA-262. The
\* host calls value.toJSON() BEFORE it calls the replacer. A property
\* whose result is undefined is dropped from an object and written as null
\* in an array. `fuel` is the stack left.
RECURSIVE SerializeJSONProperty(_, _, _), SerializeItems(_, _, _, _)
SerializeJSONProperty(value, st, fuel) ==
  IF fuel = 0
  THEN Err("RangeError", Undefined)
  ELSE LET v1 == IF HasToJSON(value) THEN ToJSON(value) ELSE value
           v2 == replacer(v1, st)
       IN CASE v2.t \in {"null", "boolean", "number", "string"} -> v2
            [] v2.t = "boxed" -> FieldOf(v2.c, "[[PrimitiveValue]]")
            [] v2.t \in {"Array", "Object", "instance"} ->
                 LET r == SerializeItems(IF v2.t = "Array" THEN Elements(v2) ELSE v2.c,
                                         v2.t = "Array", st, fuel - 1)
                 IN IF r.err THEN r.e
                    ELSE Val(IF v2.t = "Array" THEN "Array" ELSE "Object", "", 0, r.c)
            [] OTHER -> Undefined

SerializeItems(c, isArray, st, fuel) ==
  IF Len(c) = 0
  THEN [err |-> FALSE, e |-> Undefined, c |-> <<>>]
  ELSE LET h == SerializeJSONProperty(Head(c).v, st, fuel)
       IN IF IsError(h)
          THEN [err |-> TRUE, e |-> h, c |-> <<>>]
          ELSE LET r == SerializeItems(Tail(c), isArray, st, fuel)
               IN IF r.err THEN r
                  ELSE [err |-> FALSE, e |-> Undefined,
                        c |-> (IF h.t = "undefined"
                               THEN IF isArray THEN <<P("", Null)>> ELSE <<>>
                               ELSE <<P(Head(c).k, h)>>) \o r.c]

\* JSONF.stringify(thing): the text, undefined, or the error raised
stringify(thing, st) == SerializeJSONProperty(replacer(thing, st), st, MaxStack)


\* -------------------------------------------------------- referrable
\* Object.assign(v, { $MAGIC$: tag }): sets the property ON v and returns v.
\* A named function object is shared, so the heap changes; a primitive is
\* boxed; undefined and null raise TypeError.
Assign(v, tag, st) ==
  CASE v.t \in {"undefined", "null"} -> [v |-> Err("TypeError", Undefined), st |-> st]
    [] v.t = "function" /\ v.a \in DOMAIN st.magic ->
         [v |-> v, st |-> [st EXCEPT !.magic[v.a] = tag]]
    [] v.t \in {"number", "string", "boolean"} ->
         [v |-> Val("boxed", v.t, 0, <<P("[[PrimitiveValue]]", v), P(MAGIC, tag)>>),
          st |-> st]
    [] OTHER -> [v |-> [v EXCEPT !.c = SetField(v.c, MAGIC, tag)], st |-> st]

\* val.bind(target): a new function object
Bind(val, target, st) ==
  [v |-> Val("bound", val.a, st.nid,
             <<P("[[BoundThis]]", IF val.t = "bound" THEN FieldOf(val.c, "[[BoundThis]]")
                                  ELSE target)>>),
   st |-> [st EXCEPT !.nid = st.nid + 1]]

referrable(static, target, key, val, bind, st) ==
  IF static
  THEN Assign(val, Rec(<<P("cls", NameOf(target)), P("key", Str(key))>>), st)
  ELSE LET tag == Rec(<<P("cls", NameOf(ConstructorOf(target))), P("ths", target),
                        P("key", Str(key))>>)
       IN IF bind
          THEN LET b == Bind(val, target, st) IN Assign(b.v, tag, b.st)
          ELSE Assign(val, tag, st)

\* ---------------------------------------- the classes: construction
\* own and inherited members of an instance, o[key]
Member(o, key) ==
  CASE HasField(o.c, key) -> FieldOf(o.c, key)
    [] o.a = "Fancy" /\ key = "foo" -> Fn("foo")
    [] o.a = "Fancy" /\ key = "bar" ->
         Val("bound", "bar", o.id + 1,
             <<P("[[BoundThis]]", o),
               P(MAGIC, Rec(<<P("cls", Str("Fancy")), P("ths", o), P("key", Str("bar"))>>))>>)
    [] o.a \in {"Fable", "Fancy"} /\ key \in {"method", "toJSON"} -> Fn(key)
    [] OTHER -> Undefined

\* static members of a class, cls[key]
Static(cls, key) ==
  CASE key = "name" -> Str(cls.a)
    [] cls.a = "Fancy" /\ key = "fun" -> Fn("fun")
    [] cls.a \in {"Fable", "Fancy"} /\ key = "fromJSON" -> Fn("fromJSON")
    [] cls.a \in {"H", ""} /\ key = "extend" -> Fn("extend")
    [] cls.a \in {"H", ""} /\ key = "k" -> StaticK(cls)
    [] OTHER -> Undefined

\* v[key] for any value v
Get(v, key, st) ==
  CASE key = MAGIC -> MagicOf(v, st)
    [] v.t = "instance" -> Member(v, key)
    [] v.t = "class" -> Static(v, key)
    [] v.t \in {"Object", "Array", "bound", "boxed"} -> FieldOf(v.c, key)
    [] OTHER -> Undefined

\* the property name a value used as a key denotes
KeyName(v) == IF v.t = "string" THEN v.a ELSE "[" \o v.t \o "]"

\* new cls(p): the constructors of Fable, Fancy (with the initializers its
\* decorators add), Simple, H, and Object
Construct(cls, p, st) ==
  CASE cls.a = "Fable" ->
         [v |-> Inst("Fable", st.nid, <<P("json", p)>>),
          st |-> [st EXCEPT !.nid = st.nid + 1]]
    [] cls.a = "Fancy" ->
         LET o == Inst("Fancy", st.nid, <<P("json", p)>>)
             s1 == [st EXCEPT !.nid = st.nid + 1]
             foo == referrable(FALSE, o, "foo", Fn("foo"), FALSE, s1)
             bar == referrable(FALSE, o, "bar", Fn("bar"), TRUE, foo.st)
         IN [v |-> o, st |-> bar.st]
    [] cls.a = "Simple" ->
         IF p.t \in {"undefined", "null"}
         THEN [v |-> Err("TypeError", Undefined), st |-> st]
         ELSE [v |-> Inst("Simple", st.nid, <<P("data", Get(p, "data", st))>>),
               st |-> [st EXCEPT !.nid = st.nid + 1]]
    [] cls.a = "Object" ->
         [v |-> CASE p.t \in {"undefined", "null"} -> Rec(<<>>)
                  [] p.t \in {"number", "string", "boolean"} ->
                       Val("boxed", p.t, 0, <<P("[[PrimitiveValue]]", p)>>)
                  [] OTHER -> p,
          st |-> st]
    [] OTHER ->
         [v |-> Inst(cls.a, st.nid, <<>>), st |-> [st EXCEPT !.nid = st.nid + 1]]

\* f.apply(this, args) for the functions of the test classes
RECURSIVE Call(_, _, _, _)
Call(f, this, args, st) ==
  LET arg == IF Len(args) > 0 THEN args[1] ELSE Undefined IN
  CASE f.t = "bound" -> Call(Fn(f.a), FieldOf(f.c, "[[BoundThis]]"), args, st)
    [] f.t = "function" /\ f.a = "fun" -> [v |-> arg, st |-> st]
    [] f.t = "function" /\ f.a = "fromJSON" -> Construct(this, arg, st)
    [] f.t = "function" /\ f.a = "extend" ->
         [v |-> Extended(arg, st.nid), st |-> [st EXCEPT !.nid = st.nid + 1]]
    [] f.t = "function" /\ f.a = "method" ->
         [v |-> List(args), st |-> st]
    [] f.t = "function" /\ f.a \in {"foo", "bar", "toJSON"} ->
         [v |-> Get(this, "json", st), st |-> st]
    [] OTHER -> [v |-> Err("TypeError", Undefined), st |-> st]

\* ------------------------------------------------------------- parse
JSONFError(message, context) == Err("JSONFError", context)

\* clses[name]: a property read, so a name the registry does not hold is
\* looked up on Object.prototype, whose member `constructor` is Object
Lookup(clses, name) ==
  CASE name.t = "string" /\ HasField(clses.c, name.a) -> FieldOf(clses.c, name.a)
    [] name.t = "string" /\ name.a = "constructor" -> Class("Object")
    [] OTHER -> Undefined

\* magic.cls, magic.ths, magic.key, magic.args: own properties of the value
\* of $MAGIC$, whatever it is
TagField(magic, k) == FieldOf(magic.c, k)

\* const v = typeof(p) == 'function' ? p.bind(o) : p;
\* return Object.assign(v, { $MAGIC$: magic });
reviverMember(p, o, magic, st) ==
  IF TypeofFunction(p)
  THEN Assign(Val("bound", p.a, st.nid,
                  <<P("[[BoundThis]]", IF p.t = "bound" THEN FieldOf(p.c, "[[BoundThis]]")
                                       ELSE o)>>),
              magic, [st EXCEPT !.nid = st.nid + 1])
  ELSE Assign(p, magic, st)

\* what the reviver does with the instance o it has made
reviverMade(o, magic) ==
  IF IsError(o.v) \/ ~Truthy(TagField(magic, "key"))
  THEN o
  ELSE reviverMember(Get(o.v, KeyName(TagField(magic, "key")), o.st), o.v, magic, o.st)

\* the branch `if (magic.ths)` of the reviver
reviverInstance(cls, magic, st) ==
  reviverMade(IF Truthy(Static(cls, "fromJSON"))
              THEN Call(Static(cls, "fromJSON"), cls, <<TagField(magic, "ths")>>, st)
              ELSE Construct(cls, TagField(magic, "ths"), st),
              magic)

\* reviverStatic, but binding the member to the class as the instance branch
\* binds a method to its instance
reviverStaticBinds(cls, magic, st) ==
  IF Truthy(TagField(magic, "key"))
  THEN LET p == Get(cls, KeyName(TagField(magic, "key")), st)
           args == TagField(magic, "args")
       IN IF Truthy(args)
          THEN IF TypeofFunction(p) /\ TypeofObject(args)
               THEN Call(p, cls, Items(args), st)
               ELSE [v |-> Err("TypeError", Undefined), st |-> st]
          ELSE IF TypeofFunction(p) THEN Bind(p, cls, st) ELSE [v |-> p, st |-> st]
  ELSE [v |-> cls, st |-> st]

\* reviverStatic, but taking an empty args for no args
reviverStaticNonEmpty(cls, magic, st) ==
  IF Truthy(TagField(magic, "key"))
  THEN LET p == Get(cls, KeyName(TagField(magic, "key")), st)
           args == TagField(magic, "args")
       IN IF Truthy(args) /\ Len(Items(args)) > 0
          THEN IF TypeofFunction(p) /\ TypeofObject(args)
               THEN Call(p, cls, Items(args), st)
               ELSE [v |-> Err("TypeError", Undefined), st |-> st]
          ELSE [v |-> p, st |-> st]
  ELSE [v |-> cls, st |-> st]

\* the branch taken when magic.ths is falsy
reviverStatic(cls, magic, st) ==
  IF Truthy(TagField(magic, "key"))
  THEN LET p == Get(cls, KeyName(TagField(magic, "key")), st)
           args == TagField(magic, "args")
       IN IF Truthy(args)
          THEN IF TypeofFunction(p) /\ TypeofObject(args)
               THEN Call(p, cls, Items(args), st)
               ELSE [v |-> Err("TypeError", Undefined), st |-> st]
          ELSE [v |-> p, st |-> st]
  ELSE [v |-> cls, st |-> st]

reviver(v, clses, st) ==
  LET magic == IF Truthy(v) THEN MagicOf(v, st) ELSE v
  IN IF Truthy(magic)
     THEN LET cls == Lookup(clses, TagField(magic, "cls"))
          IN IF ~Truthy(cls)
             THEN [v |-> JSONFError("unknown class", magic), st |-> st]
             ELSE IF Truthy(TagField(magic, "ths"))
                  THEN reviverInstance(cls, magic, st)
                  ELSE reviverStatic(cls, magic, st)
     ELSE [v |-> v, st |-> st]

\* JSON.parse(str, reviver): InternalizeJSONProperty of ECMA-262, children
\* before parents; a property revived to undefined is deleted from an
\* object and left as a hole in an array
RECURSIVE InternalizeJSONProperty(_, _, _), InternalizeItems(_, _, _, _)
InternalizeJSONProperty(val, clses, st) ==
  LET r == IF val.t \in {"Array", "Object"}
           THEN InternalizeItems(val.c, val.t = "Array", clses, st)
           ELSE [err |-> FALSE, e |-> Undefined, c |-> val.c, st |-> st]
  IN IF r.err THEN [v |-> r.e, st |-> r.st]
     ELSE reviver([val EXCEPT !.c = r.c], clses, r.st)

InternalizeItems(c, isArray, clses, st) ==
  IF Len(c) = 0
  THEN [err |-> FALSE, e |-> Undefined, c |-> <<>>, st |-> st]
  ELSE LET h == InternalizeJSONProperty(Head(c).v, clses, st)
       IN IF IsError(h.v)
          THEN [err |-> TRUE, e |-> h.v, c |-> <<>>, st |-> h.st]
          ELSE LET r == InternalizeItems(Tail(c), isArray, clses, h.st)
               IN IF r.err THEN r
                  ELSE [r EXCEPT !.c = (IF h.v.t = "undefined" /\ ~isArray
                                        THEN <<>>
                                        ELSE <<P(Head(c).k, h.v)>>) \o r.c]

\* JSONF.parse(str, clses); JSONF.stringify(undefined) is undefined, which
\* JSON.parse reads as the text "undefined": a SyntaxError
parse(str, clses, st) ==
  IF str.t = "undefined"
  THEN [v |-> Err("SyntaxError", Undefined), st |-> st]
  ELSE InternalizeJSONProperty(str, clses, st)

\* ------------------------------------------------------ the session
\* One client session: it builds a value (or receives a text), encodes,
\* decodes, and encodes and decodes the result once more.
VARIABLES
  magic,   \* the $MAGIC$ property of the shared function objects:
           \* fun is Fancy.fun, foo is Fancy.prototype.foo
  nid,     \* the next free object identity
  pc,      \* where the session is
  src,     \* "value": x is encoded; "text": text was received
  nest,    \* constructions and wrappings applied to x
  x,       \* the value the client holds
  clses,   \* the registry given to parse
  text,    \* JSONF.stringify(x), or the text received
  out,     \* JSONF.parse(text, clses)
  text2,   \* JSONF.stringify(out)
  out2,    \* JSONF.parse(text2, clses)
  insts    \* the instances the client keeps (interleaving only)

vars == <<magic, nid, pc, src, nest, x, clses, text, out, text2, out2, insts>>

St == [magic |-> magic, nid |-> nid]

NoClasses == Rec(<<>>)
AllClasses == Rec(<<P("Fable", Class("Fable")), P("Fancy", Class("Fancy")),
                    P("Simple", Class("Simple")), P("H", Class("H"))>>)
Registries == {NoClasses, AllClasses}

Atoms == {Null, Num("0"), Num("1"), Str(""), Str("w"), Bool("false"), Bool("true")}
Takeable == Atoms \cup {Class("Fable"), Class("Fancy"), Class("Simple"), Class("H")}
WrapKeys == {"a", "data", MAGIC, "constructor"}

\* the tags a received text may hold
TagClses == {"Fable", "Fancy", "H", "Nope", "constructor"}
TagKeys == {"", "fun", "fromJSON", "extend", "k", "foo", "bar", "method", "json", "nope"}
TagThs == {Undefined, Num("0"), Str("w"), Rec(<<P("a", Num("1"))>>)}
TagArgs == {Undefined, List(<<>>), List(<<Str("x")>>)}

Opt(k, v) == IF v = Undefined THEN <<>> ELSE <<P(k, v)>>
Tag(cls, ths, key, args) ==
  Rec(<<P(MAGIC, Rec(<<P("cls", Str(cls))>> \o Opt("ths", ths)
                      \o (IF key = "" THEN <<>> ELSE <<P("key", Str(key))>>)
                      \o Opt("args", args)))>>)
Tags == {Tag(c, t, k, a) : c \in TagClses, t \in TagThs, k \in TagKeys, a \in TagArgs}

\* where the tag stands in the text: alone, after another tag in a list,
\* in a record, or as the payload of a tag of a registered class
Places == {"root", "list", "record", "ths"}
Place(w, tag, first) ==
  CASE w = "root" -> tag
    [] w = "list" -> List(<<first, tag>>)
    [] w = "record" -> Rec(<<P("a", tag)>>)
    [] w = "ths" -> Rec(<<P(MAGIC, Rec(<<P("cls", Str("Fable")), P("ths", tag)>>))>>)
Firsts == {Tag("H", Undefined, "k", List(<<>>)), Tag("Fancy", Str("w"), "", Undefined)}

Init ==
  /\ magic = referrable(TRUE, Class("Fancy"), "fun", Fn("fun"), FALSE,
                        [magic |-> [fun |-> Undefined, foo |-> Undefined], nid |-> 1]).st.magic
  /\ nid = 1
  /\ pc = "idle"
  /\ src = "none"
  /\ nest = 0
  /\ x = Undefined
  /\ clses = NoClasses
  /\ text = Undefined
  /\ out = Undefined
  /\ text2 = Undefined
  /\ out2 = Undefined
  /\ insts = <<>>

Hold(r) ==
  /\ x' = r.v
  /\ magic' = r.st.magic
  /\ nid' = r.st.nid
  /\ pc' = "have"
  /\ UNCHANGED <<clses, text, out, text2, out2, insts>>

\* the client takes a plain value or a class
Take(v) ==
  /\ pc = "idle"
  /\ src' = "value"
  /\ nest' = 0
  /\ Hold([v |-> v, st |-> St])

\* the client marks the static member Fancy.fun (again) and takes the result
Mark ==
  /\ pc \in {"idle", "have"}
  /\ pc = "have" => src = "mark"
  /\ src' = "mark"
  /\ nest' = 0
  /\ Hold(referrable(TRUE, Class("Fancy"), "fun", Static(Class("Fancy"), "fun"), FALSE, St))

\* x = H.extend(k)
Extend(k) ==
  /\ pc = "idle"
  /\ src' = "value"
  /\ nest' = 0
  /\ Hold(Call(Static(Class("H"), "extend"), Class("H"), <<k>>, St))

\* x = new cls(x)
New(cls) ==
  /\ pc = "have"
  /\ src = "value"
  /\ nest < MaxNest
  /\ nest' = nest + 1
  /\ src' = src
  /\ Hold(Construct(cls, x, St))
  /\ ~IsError(x')

\* x = x.foo, x = x.bar: the members the decorators of Fancy define
Read(m) ==
  /\ pc = "have"
  /\ x.t = "instance" /\ x.a = "Fancy"
  /\ nest' = nest
  /\ src' = src
  /\ Hold([v |-> Member(x, m), st |-> St])

\* x = [x], x = [true, x]
WrapList(first) ==
  /\ pc = "have"
  /\ src = "value"
  /\ nest < MaxNest
  /\ nest' = nest + 1
  /\ src' = src
  /\ Hold([v |-> List(first \o <<x>>), st |-> St])

\* x = { k: x }
WrapRec(k) ==
  /\ pc = "have"
  /\ src = "value"
  /\ nest < MaxNest
  /\ nest' = nest + 1
  /\ src' = src
  /\ Hold([v |-> Rec(<<P(k, x)>>), st |-> St])

\* a text arrives from outside
Receive(t) ==
  /\ pc = "idle"
  /\ pc' = "text"
  /\ src' = "text"
  /\ text' = t
  /\ UNCHANGED <<magic, nid, nest, x, clses, out, text2, out2, insts>>

\* text = JSONF.stringify(x)
Encode ==
  /\ pc = "have"
  /\ text' = stringify(x, St)
  /\ pc' = IF IsError(text') THEN "raised" ELSE "text"
  /\ UNCHANGED <<magic, nid, src, nest, x, clses, out, text2, out2, insts>>

\* the result and the effects of a call of JSONF.parse
Land(r) ==
  /\ magic' = r.st.magic
  /\ nid' = r.st.nid
  /\ IF pc = "text"
     THEN out' = r.v /\ UNCHANGED out2
     ELSE out2' = r.v /\ UNCHANGED out

\* out = JSONF.parse(text, R)
Decode(R) ==
  /\ pc = "text"
  /\ Land(parse(text, R, St))
  /\ clses' = R
  /\ pc' = "out"
  /\ UNCHANGED <<src, nest, x, text, text2, insts>>

\* text2 = JSONF.stringify(out)
ReEncode ==
  /\ pc = "out"
  /\ src # "text"
  /\ ~IsError(out)
  /\ text2' = stringify(out, St)
  /\ pc' = IF IsError(text2') THEN "raised2" ELSE "text2"
  /\ UNCHANGED <<magic, nid, src, nest, x, clses, text, out, out2, insts>>

\* out2 = JSONF.parse(text2, clses)
ReDecode ==
  /\ pc = "text2"
  /\ Land(parse(text2, clses, St))
  /\ pc' = "out2"
  /\ UNCHANGED <<src, nest, x, clses, text, text2, insts>>

Next ==
  \/ \E v \in Takeable : Take(v)
  \/ Mark
  \/ \E k \in {Str("x"), Str("r")} : Extend(k)
  \/ \E c \in {Class("Fable"), Class("Fancy"), Class("Simple")} : New(c)
  \/ \E m \in {"foo", "bar"} : Read(m)
  \/ \E f \in {<<>>, <<Bool("true")>>} : WrapList(f)
  \/ \E k \in WrapKeys : WrapRec(k)
  \/ \E t \in Tags, w \in Places, f \in Firsts : Receive(Place(w, t, f))
  \/ Encode
  \/ \E R \in Registries : Decode(R)
  \/ ReEncode
  \/ ReDecode

Spec == Init /\ [][Next]_vars

\* ------------------------------------------------ the interleaving
\* Calls of one client interleaved: it constructs instances, reads a
\* marked member off one of them and encodes it at once (text), and later,
\* after other constructions and parse calls, encodes it again (text2).
\* Every call runs to its end before the next begins: JavaScript runs one
\* call at a time.
MaxCalls == 2
Made == {Str("w"), Num("1"), Rec(<<P("a", Num("1"))>>)}

Keep(r) ==
  /\ insts' = Append(insts, r.v)
  /\ magic' = r.st.magic
  /\ nid' = r.st.nid

\* insts.push(new cls(p))
Make(cls, p) ==
  /\ pc # "have"
  /\ Len(insts) < MaxInsts
  /\ Keep(Construct(cls, p, St))
  /\ UNCHANGED <<pc, src, nest, x, clses, text, out, text2, out2>>

\* x = insts[i][m]
Pick(i, m) ==
  /\ pc = "idle"
  /\ i <= Len(insts)
  /\ insts[i].a = "Fancy"
  /\ x' = Member(insts[i], m)
  /\ pc' = "have"
  /\ src' = "value"
  /\ UNCHANGED <<magic, nid, nest, clses, text, out, text2, out2, insts>>

\* text = JSONF.stringify(x), before any other call
EncodeHeld ==
  /\ pc = "have"
  /\ text' = stringify(x, St)
  /\ pc' = "text"
  /\ UNCHANGED <<magic, nid, src, nest, x, clses, out, text2, out2, insts>>

\* text2 = JSONF.stringify(x), later
EncodeAgain ==
  /\ pc \in {"text", "text2"}
  /\ text2' = stringify(x, St)
  /\ pc' = "text2"
  /\ UNCHANGED <<magic, nid, src, nest, x, clses, text, out, out2, insts>>

\* out = JSONF.parse(JSONF.stringify(insts[i]), AllClasses)
ParseOther(i) ==
  /\ pc # "have"
  /\ i <= Len(insts)
  /\ nest < MaxCalls
  /\ nest' = nest + 1
  /\ Land(parse(stringify(insts[i], St), AllClasses, St))
  /\ clses' = AllClasses
  /\ UNCHANGED <<pc, src, x, text, text2, insts>>

NextInterleave ==
  \/ \E c \in {Class("Fable"), Class("Fancy")}, p \in Made : Make(c, p)
  \/ \E i \in 1..MaxInsts, m \in {"foo", "bar"} : Pick(i, m)
  \/ EncodeHeld
  \/ EncodeAgain
  \/ \E i \in 1..MaxInsts : ParseOther(i)

SpecInterleave == Init /\ [][NextInterleave]_vars

\* ------------------------------------------------------- the claims
RECURSIVE Strip(_)
\* a value without the identities of its objects: what deep equality sees
Strip(v) == [v EXCEPT !.id = 0, !.c = [i \in 1..Len(v.c) |-> P(v.c[i].k, Strip(v.c[i].v))]]
DeepEqual(a, b) == Strip(a) = Strip(b)

RECURSIVE IsPlain(_)
\* a JSON-representable plain value
IsPlain(v) ==
  /\ v.t \in {"null", "number", "string", "boolean", "Array", "Object"}
  /\ \A i \in 1..Len(v.c) : IsPlain(v.c[i].v)

Decoded == pc \in {"out", "text2", "raised2", "out2"}
ArgLists == {<<>>, <<Num("1")>>, <<Str("x"), Num("0")>>}
Result(f, args) == Call(f, Undefined, args, St).v

\* C4: encode and decode calls are independent: the text stringify
\* produces for a reference read from an instance is the same before and
\* after any other constructions and parse calls.
C4_CallsIndependent == pc = "text2" => text2 = text

\* C1: an instance of a registered type with a JSON-representable payload
\* (0, "", false and null among them) decodes to an instance of that type
\* deep-equal to it.
C1_InstanceRoundTrip ==
  (/\ src = "value" /\ Decoded /\ clses = AllClasses
   /\ x.t = "instance" /\ \A i \in 1..Len(x.c) : IsPlain(x.c[i].v))
  => out.t = "instance" /\ out.a = x.a /\ DeepEqual(out, x)

RECURSIVE HasUnknownTag(_, _)
\* the text holds, at some depth, a tag whose cls is not a key of R
HasUnknownTag(t, R) ==
  \/ /\ t.t = "Object" /\ HasField(t.c, MAGIC)
     /\ FieldOf(t.c, MAGIC).t = "Object"
     /\ FieldOf(FieldOf(t.c, MAGIC).c, "cls").t = "string"
     /\ ~HasField(R.c, FieldOf(FieldOf(t.c, MAGIC).c, "cls").a)
  \/ \E i \in 1..Len(t.c) : HasUnknownTag(t.c[i].v, R)

Context(e) == FieldOf(e.c, "context")

\* C2: a text that holds, at any depth, a tag whose cls is not a key of
\* the registry makes parse raise JSONFError with such a tag as context,
\* whatever the other nodes are.
C2_UnknownClassFailsClosed ==
  (src = "text" /\ pc = "out" /\ HasUnknownTag(text, clses))
  => /\ out.t = "error" /\ out.a = "JSONFError"
     /\ ~HasField(clses.c, KeyName(TagField(Context(out), "cls")))

\* C3: parse of a well-formed text returns a value or raises JSONFError;
\* no other error is raised while tags are processed.
C3_OnlyUnknownClassRaised ==
  (src = "text" /\ pc = "out" /\ IsError(out)) => out.a = "JSONFError"

\* C5: a JSON-representable plain value is encoded without error and
\* decodes, with an empty registry, to a value deep-equal to it.
C5_PlainRoundTrip ==
  (src = "value" /\ IsPlain(x))
  => /\ pc # "raised"
     /\ (Decoded /\ clses = NoClasses) => out = x

\* C6: the static member Fancy.fun, marked with the unbound helper any
\* number of times, encoded and decoded with its class registered, is the
\* member itself: identical to the reference encoded and to Fancy.fun.
C6_StaticIdentity ==
  src = "mark"
  => /\ x = Static(Class("Fancy"), "fun")
     /\ (Decoded /\ clses = AllClasses) => out = x /\ out = Static(Class("Fancy"), "fun")

C6_Witness ==
  /\ src = "mark" /\ pc = "out" /\ clses = AllClasses
  /\ text = Tag("Fancy", Undefined, "fun", Undefined)
  /\ out = Fn("fun")

BoundThis(f) == FieldOf(f.c, "[[BoundThis]]")

\* C7: a bound method i.bar of an instance with a JSON-representable
\* payload decodes to a callable that is not i.bar, whose receiver is
\* deep-equal to i and that returns what i.bar returns for every arguments.
C7_BoundRoundTrip ==
  (/\ src = "value" /\ Decoded /\ clses = AllClasses
   /\ x.t = "bound" /\ IsPlain(Member(BoundThis(x), "json")))
  => /\ TypeofFunction(out)
     /\ out # x
     /\ DeepEqual(BoundThis(out), BoundThis(x))
     /\ \A args \in ArgLists : Result(out, args) = Result(x, args)

InvocableStatics == {<<"Fancy", "fun">>, <<"Fable", "fromJSON">>, <<"Fancy", "fromJSON">>,
                     <<"H", "extend">>}
First(args) == IF Len(args) > 0 THEN args[1] ELSE Undefined
\* what invoking the static member `key` of class `cls` with `args` returns
Invoked(cls, key, args) ==
  CASE key = "fun" -> First(args)
    [] key = "fromJSON" -> Inst(cls, 0, <<P("json", First(args))>>)
    [] key = "extend" -> Extended(First(args), 0)

\* C8: a tag with key and args and no ths, naming an invocable static
\* member of a registered class, decodes to the result of invoking the
\* member with the elements of args (the empty list too); without args it
\* decodes to the member itself.
C8_InvocableTag ==
  \A ck \in InvocableStatics, a \in TagArgs :
    (src = "text" /\ pc = "out" /\ clses = AllClasses
     /\ text = Tag(ck[1], Undefined, ck[2], a))
    => IF a = Undefined
       THEN out = Fn(ck[2])
       ELSE DeepEqual(out, Invoked(ck[1], ck[2], Items(a)))

C8_Witness ==
  /\ src = "text" /\ pc = "out" /\ clses = AllClasses
  /\ text = Tag("Fable", Undefined, "fromJSON", List(<<>>))
  /\ out.t = "instance" /\ out.a = "Fable"

Equivalent(a, b) ==
  CASE b.t = "function" -> a = b
    [] b.t = "class" -> IF b.a = "" THEN DeepEqual(a, b) ELSE a = b
    [] b.t = "bound" -> a.t = "bound" /\ \A args \in ArgLists :
                                          DeepEqual(Result(a, args), Result(b, args))
    [] OTHER -> DeepEqual(a, b)

\* C9: for a bare type, an instance, a static reference or an
\* instance-member reference, decoding the encoding of the decoded value
\* gives a value equivalent to the decoded value.
C9_DoubleStable ==
  (/\ src \in {"value", "mark"} /\ clses = AllClasses
   /\ x.t \in {"class", "instance", "function", "bound"}
   /\ pc \in {"raised2", "text2", "out2"})
  => /\ pc # "raised2"
     /\ pc = "out2" => Equivalent(out2, out)

RECURSIVE OnlyData(_)
\* plain data and instances, with no record that uses a reserved key
OnlyData(v) ==
  /\ v.t \in {"undefined", "null", "number", "string", "boolean", "Array", "Object", "instance"}
  /\ v.t = "Object" => ~HasField(v.c, MAGIC) /\ ~HasField(v.c, "constructor")
  /\ \A i \in 1..Len(v.c) : OnlyData(v.c[i].v)

RECURSIVE NumInstances(_), NumInstancesIn(_)
NumInstances(v) == (IF v.t = "instance" THEN 1 ELSE 0) + NumInstancesIn(v.c)
NumInstancesIn(c) ==
  IF Len(c) = 0 THEN 0 ELSE NumInstances(Head(c).v) + NumInstancesIn(Tail(c))

IsInstanceTag(t) ==
  /\ t.t = "Object" /\ HasField(t.c, MAGIC)
  /\ HasField(FieldOf(t.c, MAGIC).c, "ths")
  /\ FieldOf(FieldOf(t.c, MAGIC).c, "cls") \in {Str("Fable"), Str("Fancy"), Str("Simple")}

RECURSIVE NumInstanceTags(_), NumInstanceTagsIn(_)
NumInstanceTags(t) == (IF IsInstanceTag(t) THEN 1 ELSE 0) + NumInstanceTagsIn(t.c)
NumInstanceTagsIn(c) ==
  IF Len(c) = 0 THEN 0 ELSE NumInstanceTags(Head(c).v) + NumInstanceTagsIn(Tail(c))

\* C10: every instance in the value encoded, the root or nested in a list,
\* a record or the payload of another instance, with or without a toJSON,
\* is emitted as a tag with its cls and ths: the text holds one tag for
\* each instance.
C10_EveryInstanceTagged ==
  (src = "value" /\ pc = "text" /\ OnlyData(x))
  => NumInstanceTags(text) = NumInstances(x)

====
